---- MODULE Spec2Model ----
(***************************************************************************)
(* Carbon Measures RSS collector (streamlit_app.py): the per-keyword feed  *)
(* fetch, the collection run with URL de-duplication, the table kept in    *)
(* the session, and the Search & Filter view derived from it.              *)
(*                                                                         *)
(* Text is modelled as a sequence of one-character strings ('' is <<>>),   *)
(* a publication-date text as the sequence of its numeric groups, a dict   *)
(* as a function whose DOMAIN is its key set ({} is <<>>), a DataFrame as  *)
(* its column list and its row list.                                       *)
(***************************************************************************)
EXTENDS Integers, Sequences, FiniteSets, TLC

VARIABLES
    served,         \* the feed document the endpoint serves for each keyword
    heap,           \* the DataFrame objects alive, by reference
    session_state,  \* st.session_state: a dict, 'articles_df' -> reference
    collected,      \* the DataFrame returned by the most recent collect_all_feeds
    filtered_df,    \* the DataFrame of the most recent Search & Filter run
    criteria,       \* the widget values of that run
    refiltered,     \* the result of filtering filtered_df again with criteria
    last_op         \* the handler that ran last

vars == <<served, heap, session_state, collected, filtered_df, criteria,
          refiltered, last_op>>

----------------------------------------------------------------------------
(* Bounds of the model *)

NumKeywords == 2        \* how many of the monitored keywords are queried
MaxEntries == 2         \* longest feed document, in entries
MaxDay == 1             \* calendar days are 0..MaxDay
SecondsPerDay == 2      \* a (scaled-down) day has this many whole seconds
TicksPerSecond == 2     \* timestamp resolution: instants within one second

TicksPerDay == SecondsPerDay * TicksPerSecond
Dates == 0..MaxDay

----------------------------------------------------------------------------
(* Program constants and library values *)

AllKeywords ==
    <<"carbon measures", "scope 3 emissions", "exxon scope 3",
      "greenhouse gas protocol scope 3", "Amy Bracchio", "Karthik Ramanna">>

KEYWORDS == SubSeq(AllKeywords, 1, NumKeywords)

\* published_date = None (line 45); a parsed date is the one-element sequence
\* <<t>>: a timezone-aware timestamp, t ticks after day 0 began
None == <<>>

\* pandas' NaT in a timezone-naive datetime column (real instants are >= 0)
NaT == -1

ArticleColumns ==
    <<"Keyword", "Title", "URL", "Published", "Published_Date", "Source",
      "Description">>

\* pd.DataFrame([]): no rows and no columns
EmptyFrame == [columns |-> <<>>, rows |-> <<>>]

Range(s) == {s[i] : i \in 1..Len(s)}

\* dict.get(key, default)
Get(d, key, default) == IF key \in DOMAIN d THEN d[key] ELSE default

----------------------------------------------------------------------------
(* fetch_google_news_rss *)

\* dateutil's parser on a date text <<day, second of day, fraction>>:
\* any other text makes it raise
DateParses(text) ==
    /\ Len(text) = 3
    /\ text[2] \in 0..(SecondsPerDay - 1)
    /\ text[3] \in 0..(TicksPerSecond - 1)

date_parser_parse(text) ==
    text[1] * TicksPerDay + text[2] * TicksPerSecond + text[3]

\* lines 44-51: '' is not parsed, a text the parser rejects leaves None
ParsePublished(published_str) ==
    IF published_str = <<>> THEN None
    ELSE IF DateParses(published_str) THEN <<date_parser_parse(published_str)>>
    ELSE None

\* lines 53-61
Article(keyword, entry) ==
    [Keyword |-> keyword,
     Title |-> Get(entry, "title", <<>>),
     URL |-> Get(entry, "link", ""),
     Published |-> Get(entry, "published", <<>>),
     Published_Date |-> ParsePublished(Get(entry, "published", <<>>)),
     Source |-> Get(Get(entry, "source", <<>>), "title", "Unknown"),
     Description |-> Get(entry, "summary", <<>>)]

\* How many entries the loop of lines 42-62 appends before the try block is
\* left: all of them, or those before the point where an exception is raised
\* (at = 0: feedparser.parse itself raises; at = i: while entry i is processed)
AppendedCount(doc) ==
    IF doc.raises THEN (IF doc.at = 0 THEN 0 ELSE doc.at - 1)
    ELSE Len(doc.entries)

\* The except clause of line 63 reports the error; line 66 returns whatever
\* articles holds at that point.  The st.cache_data memo of line 33 is not
\* state of the model: a run is given any document per keyword, the one an
\* earlier run saw included.
fetch_google_news_rss(keyword, doc) ==
    [i \in 1..AppendedCount(doc) |-> Article(keyword, doc.entries[i])]

----------------------------------------------------------------------------
(* collect_all_feeds *)

\* pd.DataFrame(list of dicts): the columns are the keys of the dicts
DataFrame(articles) ==
    IF articles = <<>> THEN EmptyFrame
    ELSE [columns |-> ArticleColumns, rows |-> articles]

\* df.empty
IsEmpty(df) == df.rows = <<>> \/ df.columns = <<>>

\* df[mask]: the rows whose mask entry is True, in order, all columns kept
RECURSIVE BoolIndexRows(_, _)
BoolIndexRows(rows, mask) ==
    IF rows = <<>> THEN <<>>
    ELSE (IF Head(mask) THEN <<Head(rows)>> ELSE <<>>)
         \o BoolIndexRows(Tail(rows), Tail(mask))

BoolIndex(df, mask) == [df EXCEPT !.rows = BoolIndexRows(df.rows, mask)]

drop_duplicates_keep_last(df) ==
    BoolIndex(df, [i \in 1..Len(df.rows) |->
        \A j \in (i + 1)..Len(df.rows) : df.rows[j].URL # df.rows[i].URL])

\* df.drop_duplicates(subset=['URL'], keep='first')
drop_duplicates(df) ==
    BoolIndex(df, [i \in 1..Len(df.rows) |->
        \A j \in 1..(i - 1) : df.rows[j].URL # df.rows[i].URL])

\* all_articles after the loop of lines 74-79 has handled keywords 1..n
RECURSIVE ExtendAll(_, _)
ExtendAll(docs, n) ==
    IF n = 0 THEN <<>>
    ELSE ExtendAll(docs, n - 1) \o fetch_google_news_rss(KEYWORDS[n], docs[n])

collect_all_feeds(docs) ==
    LET df == DataFrame(ExtendAll(docs, Len(KEYWORDS)))
    IN  IF ~IsEmpty(df) THEN drop_duplicates(df) ELSE df

----------------------------------------------------------------------------
(* Search & Filter (tab2) *)

\* Series.isna() / notna() on the Published_Date column
isna(v) == v = None
AnyNotNa(df) == \E i \in 1..Len(df.rows) : ~isna(df.rows[i].Published_Date)

\* pd.to_datetime(...).dt.tz_localize(None): the naive wall-clock instant of
\* an aware timestamp, NaT for None
tz_localize_none(v) == IF isna(v) THEN NaT ELSE v[1]

\* filtered_df['Published_Date_Compare'] = ... (line 306): the column is added
\* to (or overwritten in) the object itself
SetCompareColumn(df) ==
    [columns |-> IF "Published_Date_Compare" \in Range(df.columns)
                 THEN df.columns
                 ELSE Append(df.columns, "Published_Date_Compare"),
     rows |-> [i \in 1..Len(df.rows) |->
         [col \in (DOMAIN df.rows[i]) \cup {"Published_Date_Compare"} |->
             IF col = "Published_Date_Compare"
             THEN tz_localize_none(df.rows[i].Published_Date)
             ELSE df.rows[i][col]]]]

\* The object filtered_df after lines 297-306
WithCompare(df) ==
    IF "Published_Date" \in Range(df.columns) /\ AnyNotNa(df)
    THEN SetCompareColumn(df)
    ELSE df

\* pd.Timestamp(start_date), and line 300:
\* pd.Timestamp(end_date) + Timedelta(days=1) - Timedelta(seconds=1)
start_datetime(c) == c.start_date * TicksPerDay
end_datetime(c) == c.end_date * TicksPerDay + TicksPerDay - TicksPerSecond

\* a comparison with NaT is False
InRange(t, c) == t # NaT /\ t >= start_datetime(c) /\ t <= end_datetime(c)

date_mask_inside_branch(df, c) ==
    IF AnyNotNa(df)
    THEN [i \in 1..Len(df.rows) |->
            isna(df.rows[i].Published_Date)
            \/ InRange(df.rows[i].Published_Date_Compare, c)]
    ELSE [i \in 1..Len(df.rows) |-> FALSE]

date_mask_range_only(df, c) ==
    IF AnyNotNa(df)
    THEN [i \in 1..Len(df.rows) |->
            InRange(df.rows[i].Published_Date_Compare, c)]
    ELSE [i \in 1..Len(df.rows) |-> isna(df.rows[i].Published_Date)]

\* lines 303-310, on the frame that already carries the compare column
date_mask(df, c) ==
    IF AnyNotNa(df)
    THEN [i \in 1..Len(df.rows) |->
            isna(df.rows[i].Published_Date)
            \/ InRange(df.rows[i].Published_Date_Compare, c)]
    ELSE [i \in 1..Len(df.rows) |-> isna(df.rows[i].Published_Date)]

\* lines 297-311
DateFilter(df, c) ==
    IF "Published_Date" \in Range(df.columns)
    THEN BoolIndex(WithCompare(df), date_mask(WithCompare(df), c))
    ELSE df

\* re.IGNORECASE folds letter case
lower(ch) ==
    CASE ch = "A" -> "a"
      [] ch = "B" -> "b"
      [] OTHER -> ch

\* the regular expression pat matches text at position k: '.' is the
\* metacharacter matching any character, every other character of the
\* model's alphabet stands for itself
RegexMatchesAt(pat, text, k) ==
    \A j \in 1..Len(pat) :
        pat[j] = "." \/ lower(pat[j]) = lower(text[k + j - 1])

\* Series.str.contains(pat, case=False, na=False): regex=True is the default,
\* so the test is re.search(pat, text, re.IGNORECASE)
str_contains(text, pat) ==
    \E k \in 1..(Len(text) - Len(pat) + 1) : RegexMatchesAt(pat, text, k)

\* lines 313-316
SearchFilter(df, c) ==
    IF c.search_term # <<>>
    THEN BoolIndex(df, [i \in 1..Len(df.rows) |->
            str_contains(df.rows[i].Title, c.search_term)
            \/ str_contains(df.rows[i].Description, c.search_term)])
    ELSE df

KeywordFilter_unguarded(df, c) ==
    BoolIndex(df, [i \in 1..Len(df.rows) |->
        df.rows[i].Keyword \in c.selected_keywords])

\* lines 318-319
KeywordFilter(df, c) ==
    IF c.selected_keywords # {}
    THEN BoolIndex(df, [i \in 1..Len(df.rows) |->
            df.rows[i].Keyword \in c.selected_keywords])
    ELSE df

\* lines 321-322
SourceFilter(df, c) ==
    IF c.selected_sources # {}
    THEN BoolIndex(df, [i \in 1..Len(df.rows) |->
            df.rows[i].Source \in c.selected_sources])
    ELSE df

\* lines 294-322 as a function of the table that was copied
ApplyFilters(df, c) ==
    SourceFilter(KeywordFilter(SearchFilter(DateFilter(df, c), c), c), c)

\* filtered_df = df.copy() (line 294): the reference of a new object
DfCopy_alias(ref) == ref

DfCopy(ref) == "filtered_df"

----------------------------------------------------------------------------
(* Inputs: feed documents and widget values *)

URLs == {"u1", "u2"}
KeywordLinks == <<"k1", "k2", "k3", "k4", "k5", "k6">>

Doc(entries) == [entries |-> entries, raises |-> FALSE, at |-> 0]

\* every document of at most n entries drawn from E, served intact or with
\* an exception raised at some point of its processing
DocsOver(E, n) ==
    UNION {{Doc(es)} \cup {[entries |-> es, raises |-> TRUE, at |-> i] :
                            i \in 0..Len(es)} :
           es \in UNION {[1..m -> E] : m \in 0..n}}

\* CollectSpec: entries that differ in their link
CollectEntries ==
    {[title |-> <<"A", "b">>, link |-> u, published |-> <<0, 0, 0>>] :
        u \in URLs}

\* Spec: one-entry documents, with or without a parsable date
SessionEntries ==
    {[title |-> <<"A", "b">>, link |-> u, published |-> p] :
        u \in URLs, p \in {<<0, 0, 0>>, <<7>>}}

SessionDocs == {Doc(<<>>)} \cup {Doc(<<e>>) : e \in SessionEntries}

\* FilterSpec: date texts for the first instant of every day and for the
\* last whole second and the last instant of day 0, a text the parser
\* rejects, entries without a date text, and titles, summaries and sources
\* that differ
DateTexts ==
    {<<d, 0, 0>> : d \in Dates}
    \cup {<<0, SecondsPerDay - 1, 0>>,
          <<0, SecondsPerDay - 1, TicksPerSecond - 1>>}

RichBodies ==
    {[title |-> <<"A", "b">>, published |-> p] : p \in DateTexts \cup {<<7>>}}
    \cup {[title |-> <<"b">>, published |-> <<0, 0, 0>>,
           source |-> [title |-> "Reuters"]],
          [title |-> <<"a", ".">>, source |-> [title |-> "Reuters"]],
          [summary |-> <<"A", "b">>, source |-> [title |-> "Reuters"]]}

WithLink(body, l) ==
    [k \in (DOMAIN body) \cup {"link"} |-> IF k = "link" THEN l ELSE body[k]]

SearchTerms == {<<>>, <<"A", "B">>, <<".">>, <<"a", ".">>}

\* the values the widgets of lines 205-291 can hold for the table df
Unique(df, col) == {df.rows[i][col] : i \in 1..Len(df.rows)}

CriteriaFor(df) ==
    [search_term : SearchTerms, start_date : Dates, end_date : Dates,
     selected_keywords : SUBSET Unique(df, "Keyword"),
     selected_sources : SUBSET Unique(df, "Source")]

NoCriteria ==
    [search_term |-> <<>>, start_date |-> 0, end_date |-> 0,
     selected_keywords |-> {}, selected_sources |-> {}]

NothingServed == [i \in 1..Len(KEYWORDS) |-> Doc(<<>>)]

----------------------------------------------------------------------------
(* State machine *)

HasTable == "articles_df" \in DOMAIN session_state
Table == heap[session_state["articles_df"]]

Init ==
    /\ served = NothingServed
    /\ heap = [ref \in {"articles_df", "filtered_df"} |-> EmptyFrame]
    /\ session_state = <<>>
    /\ collected = EmptyFrame
    /\ filtered_df = EmptyFrame
    /\ criteria = NoCriteria
    /\ refiltered = EmptyFrame
    /\ last_op = "start"

\* tab1, lines 119-134: the Collect Articles button was clicked.  The script
\* then goes on to tab2 (Tab2Info or Tab2Filter) before another click can be
\* handled, hence the guard on last_op.
Collect(docs) ==
    /\ last_op # "collect"
    /\ LET df == collect_all_feeds(docs)
       IN  /\ collected' = df
           /\ IF IsEmpty(df)
              THEN UNCHANGED <<heap, session_state>>
              ELSE /\ heap' = [heap EXCEPT !["articles_df"] = df]
                   /\ session_state' = [articles_df |-> "articles_df"]
    /\ last_op' = "collect"
    /\ UNCHANGED <<filtered_df, criteria, refiltered>>

\* tab2, lines 196-197: nothing was stored yet
Tab2Info ==
    /\ ~HasTable
    /\ last_op' = "info"
    /\ UNCHANGED <<served, heap, session_state, collected, filtered_df,
                   criteria, refiltered>>

\* tab2, lines 199-322, with the widget values c
Tab2Filter(c) ==
    /\ HasTable
    /\ LET df == session_state["articles_df"]
           target == DfCopy(df)
           copied == [heap EXCEPT ![target] = heap[df]]
       IN  /\ heap' = [copied EXCEPT ![target] = WithCompare(copied[target])]
           /\ filtered_df' = ApplyFilters(copied[target], c)
    /\ last_op' = "filter"
    /\ UNCHANGED <<served, session_state, collected>>

CollectButton ==
    /\ \E docs \in [1..Len(KEYWORDS) -> SessionDocs] : Collect(docs)
    /\ UNCHANGED served

SearchAndFilter ==
    /\ HasTable
    /\ \E c \in CriteriaFor(Table) : Tab2Filter(c)
    /\ UNCHANGED <<criteria, refiltered>>

Next == CollectButton \/ Tab2Info \/ SearchAndFilter

Spec == Init /\ [][Next]_vars

----------------------------------------------------------------------------
(* CollectSpec: one collection run over every combination of documents *)

CollectInit ==
    /\ served \in [1..Len(KEYWORDS) -> DocsOver(CollectEntries, MaxEntries)]
    /\ heap = [ref \in {"articles_df", "filtered_df"} |-> EmptyFrame]
    /\ session_state = <<>>
    /\ collected = EmptyFrame
    /\ filtered_df = EmptyFrame
    /\ criteria = NoCriteria
    /\ refiltered = EmptyFrame
    /\ last_op = "start"

CollectServed == Collect(served) /\ UNCHANGED served

CollectNext == CollectServed

CollectSpec == CollectInit /\ [][CollectNext]_vars

----------------------------------------------------------------------------
(* FilterSpec: the filter view over tables with varied dates and texts,    *)
(* started right after the collection run that stored the table            *)

RichServed ==
    {[i \in 1..Len(KEYWORDS) |->
        IF present[i] THEN Doc(<<WithLink(body[i], KeywordLinks[i])>>)
        ELSE Doc(<<>>)] :
     body \in [1..Len(KEYWORDS) -> RichBodies],
     present \in [1..Len(KEYWORDS) -> BOOLEAN]}

FilterInit ==
    /\ served \in RichServed
    /\ collected = collect_all_feeds(served)
    /\ heap = [ref \in {"articles_df", "filtered_df"} |->
                IF ref = "articles_df" THEN collected ELSE EmptyFrame]
    /\ session_state = IF IsEmpty(collected) THEN <<>>
                       ELSE [articles_df |-> "articles_df"]
    /\ filtered_df = EmptyFrame
    /\ criteria = NoCriteria
    /\ refiltered = EmptyFrame
    /\ last_op = "collect"

\* the view rendered by the script run that stored the table
FilterView ==
    /\ last_op = "collect"
    /\ HasTable
    /\ \E c \in CriteriaFor(Table) : Tab2Filter(c) /\ criteria' = c
    /\ UNCHANGED refiltered

\* the same widget values applied to the table the view produced
Refilter ==
    /\ last_op = "filter"
    /\ refiltered' = ApplyFilters(filtered_df, criteria)
    /\ last_op' = "refilter"
    /\ UNCHANGED <<served, heap, session_state, collected, filtered_df,
                   criteria>>

FilterNext == FilterView \/ Tab2Info \/ Refilter

FilterSpec == FilterInit /\ [][FilterNext]_vars

----------------------------------------------------------------------------
(* Vocabulary of the properties *)

\* the batches fetch returned in the run, concatenated in keyword order
Fetched == ExtendAll(served, Len(KEYWORDS))

\* the same, had every keyword whose fetch met a failure returned nothing
FetchedBySucceeded ==
    ExtendAll([k \in 1..Len(KEYWORDS) |->
                 IF served[k].raises THEN Doc(<<>>) ELSE served[k]],
              Len(KEYWORDS))

FirstIndex(all, u) ==
    CHOOSE a \in 1..Len(all) :
        all[a].URL = u /\ \A b \in 1..(a - 1) : all[b].URL # u

\* rows is all with every record removed whose url occurred earlier in all
FirstSeenDedup(rows, all) ==
    /\ \A i, j \in 1..Len(rows) : i # j => rows[i].URL # rows[j].URL
    /\ \A a \in 1..Len(all) :
          Cardinality({i \in 1..Len(rows) : rows[i].URL = all[a].URL}) = 1
    /\ \A i \in 1..Len(rows) :
          \E a \in 1..Len(all) :
              /\ rows[i] = all[a]
              /\ \A b \in 1..(a - 1) : all[b].URL # rows[i].URL
    /\ \A i, j \in 1..Len(rows) :
          i < j => FirstIndex(all, rows[i].URL) < FirstIndex(all, rows[j].URL)

\* a view has been derived from the stored table with the recorded criteria
Viewed == last_op \in {"filter", "refilter"}

\* the view shows the record with url u
Shown(u) == \E i \in 1..Len(filtered_df.rows) : filtered_df.rows[i].URL = u

\* a record restricted to the seven article fields
Fields(r) == [col \in Range(ArticleColumns) |-> r[col]]
Records(df) == [i \in 1..Len(df.rows) |-> Fields(df.rows[i])]

\* the single criteria of lines 303-322, record by record
InDateRange(r, c) ==
    isna(r.Published_Date) \/ InRange(tz_localize_none(r.Published_Date), c)
InSearch(r, c) ==
    c.search_term = <<>> \/ str_contains(r.Title, c.search_term)
                         \/ str_contains(r.Description, c.search_term)
InKeywords(r, c) == c.selected_keywords = {} \/ r.Keyword \in c.selected_keywords
InSources(r, c) == c.selected_sources = {} \/ r.Source \in c.selected_sources

\* text occurs in s as a literal, contiguous substring, letter case ignored
LiteralContains(s, text) ==
    \E k \in 1..(Len(s) - Len(text) + 1) :
        \A j \in 1..Len(text) : lower(text[j]) = lower(s[k + j - 1])

\* the first and the last instant of a calendar day
FirstInstant(day) == day * TicksPerDay
LastInstant(day) == (day + 1) * TicksPerDay - 1

----------------------------------------------------------------------------
(* Properties *)

\* C1: the table collect returns is the concatenation of the fetched batches
\* with every record removed whose url occurred earlier: urls are unique, each
\* fetched url appears once, the survivor is the first occurrence (so it has
\* the first fetching keyword), and collection order is kept.
C1_CollectDedupFirstSeen ==
    last_op = "collect" => FirstSeenDedup(collected.rows, Fetched)

\* C1 witness: a -> [u1], b -> [u1, u2] gave exactly [(u1, a), (u2, b)]
C1_Witness ==
    /\ last_op = "collect"
    /\ Len(served[1].entries) = 1 /\ Len(served[2].entries) = 2
    /\ Len(Fetched) = 3
    /\ Fetched[1].URL = "u1" /\ Fetched[2].URL = "u1" /\ Fetched[3].URL = "u2"
    /\ Len(collected.rows) = 2
    /\ collected.rows[1].URL = "u1" /\ collected.rows[1].Keyword = KEYWORDS[1]
    /\ collected.rows[2].URL = "u2" /\ collected.rows[2].Keyword = KEYWORDS[2]

\* C2 (as claimed): a keyword whose fetch fails at any point contributes zero
\* records, so the table is the deduplicated records of the keywords whose
\* fetch succeeded.
C2_FailedKeywordContributesNothing ==
    last_op = "collect" => FirstSeenDedup(collected.rows, FetchedBySucceeded)

\* C3: a record without a published date that satisfies the search, keyword
\* and source criteria is in the view under every date range.
C3_AbsentDateNeverRemoved ==
    Viewed =>
        \A i \in 1..Len(Table.rows) :
            LET r == Table.rows[i]
            IN  (/\ isna(r.Published_Date)
                 /\ InSearch(r, criteria)
                 /\ InKeywords(r, criteria)
                 /\ InSources(r, criteria)) => Shown(r.URL)

\* C3 witness: under a range with start after end the undated record is
\* shown while a dated record of the same table is not
C3_Witness ==
    /\ last_op = "filter"
    /\ criteria.start_date > criteria.end_date
    /\ \E i, j \in 1..Len(Table.rows) :
          /\ isna(Table.rows[i].Published_Date) /\ Shown(Table.rows[i].URL)
          /\ ~isna(Table.rows[j].Published_Date) /\ ~Shown(Table.rows[j].URL)

\* C4 (as claimed): a record with a published date that satisfies the other
\* criteria is in the view if and only if the date lies between the first
\* instant of the start date and the last instant of the end date.
C4_DateRangeThroughLastInstant ==
    Viewed =>
        \A i \in 1..Len(Table.rows) :
            LET r == Table.rows[i]
            IN  (/\ ~isna(r.Published_Date)
                 /\ InSearch(r, criteria)
                 /\ InKeywords(r, criteria)
                 /\ InSources(r, criteria))
                => (Shown(r.URL) <=>
                        /\ r.Published_Date[1] >= FirstInstant(criteria.start_date)
                        /\ r.Published_Date[1] <= LastInstant(criteria.end_date))

\* C5: an empty keyword set and an empty source set restrict nothing, a
\* non-empty one keeps exactly the members: the view holds, in table order,
\* the records that pass the date and search criteria and every non-empty
\* set, and with no restricting criterion it holds the table's records.
C5_EmptySetMeansNoRestriction ==
    Viewed =>
        LET keep(r) == /\ InDateRange(r, criteria)
                       /\ InSearch(r, criteria)
                       /\ (criteria.selected_keywords # {}
                             => r.Keyword \in criteria.selected_keywords)
                       /\ (criteria.selected_sources # {}
                             => r.Source \in criteria.selected_sources)
        IN  /\ Records(filtered_df) = SelectSeq(Table.rows, keep)
            /\ (/\ criteria.selected_keywords = {}
                /\ criteria.selected_sources = {}
                /\ criteria.search_term = <<>>
                /\ \A i \in 1..Len(Table.rows) :
                      InDateRange(Table.rows[i], criteria))
               => Records(filtered_df) = Table.rows

\* C5 witness: both sets empty, and records of two keywords and two sources
\* are all shown
C5_Witness ==
    /\ last_op = "filter"
    /\ criteria.selected_keywords = {}
    /\ criteria.selected_sources = {}
    /\ Cardinality(Unique(Table, "Keyword")) > 1
    /\ Cardinality(Unique(Table, "Source")) > 1
    /\ Len(filtered_df.rows) = Len(Table.rows)

\* C6: filtering the view again with the same criteria yields the same
\* records in the same order.
C6_FilterIdempotent ==
    last_op = "refilter" => refiltered = filtered_df

\* C6 witness: a view that dropped a record and kept one was filtered again
C6_Witness ==
    /\ last_op = "refilter"
    /\ Len(filtered_df.rows) > 0
    /\ Len(filtered_df.rows) < Len(Table.rows)
    /\ criteria.search_term # <<>>

\* C7 (as claimed): with a non-empty search text a record that satisfies the
\* other criteria is in the view if and only if the text occurs literally,
\* letter case ignored, in its title or its description.
C7_SearchIsLiteralSubstring ==
    Viewed =>
        \A i \in 1..Len(Table.rows) :
            LET r == Table.rows[i]
            IN  (/\ criteria.search_term # <<>>
                 /\ InDateRange(r, criteria)
                 /\ InKeywords(r, criteria)
                 /\ InSources(r, criteria))
                => (Shown(r.URL) <=>
                        \/ LiteralContains(r.Title, criteria.search_term)
                        \/ LiteralContains(r.Description, criteria.search_term))

\* C8 (as claimed): a table handed to export, from collect or from the
\* filter view, has exactly the seven article fields.
C8_ExportHasSevenFields ==
    /\ (last_op = "collect" /\ ~IsEmpty(collected))
          => /\ collected.columns = ArticleColumns
             /\ \A i \in 1..Len(collected.rows) :
                   DOMAIN collected.rows[i] = Range(ArticleColumns)
    /\ (last_op = "filter" /\ Len(filtered_df.rows) > 0)
          => /\ filtered_df.columns = ArticleColumns
             /\ \A i \in 1..Len(filtered_df.rows) :
                   DOMAIN filtered_df.rows[i] = Range(ArticleColumns)

\* C9: a step that is not a collection run leaves the stored table as it
\* is: same records, same order, same fields and values.
C9_FilterLeavesTableUnchanged ==
    [][(HasTable /\ last_op' # "collect") => (HasTable' /\ Table' = Table)]_vars

\* C9 witness: a view was derived that dropped a record and carries the
\* comparison column, and the stored table still has its seven columns
C9_Witness ==
    /\ last_op = "filter"
    /\ "Published_Date_Compare" \in Range(filtered_df.columns)
    /\ Len(filtered_df.rows) < Len(Table.rows)
    /\ Table.columns = ArticleColumns

\* C10 (as claimed): after any collection runs the table filtering operates
\* on is the result of the most recent run, also when that run found nothing.
C10_TableIsMostRecentRun ==
    last_op # "start" =>
        IF HasTable THEN Table = collected ELSE IsEmpty(collected)

====
